---- MODULE Spec2Model ----
(***************************************************************************)
(* Two maintenance scripts of the blog repository:                         *)
(*   scripts/pt/convert_mdx_to_md.py  (the renamer, specification Spec)    *)
(*   scripts/pt/tag-normalization.py  (the tag normalizer, SpecTags)       *)
(*                                                                         *)
(* Text is modelled at token level.  A file name and a renamer document    *)
(* are sequences of tokens ("date:", " ", "\n", a date, a time-of-day,     *)
(* "author:", other text); the regular expression of the renamer is        *)
(* evaluated on those tokens.  A tag-normalizer document is a sequence of  *)
(* lines, a tag is a sequence of characters.  A directory holds regular    *)
(* files only.                                                             *)
(***************************************************************************)
EXTENDS Naturals, Sequences, FiniteSets

VARIABLES fs, fs0, listing, pc, filename, content, new_filename, outcome, run

vars == <<fs, fs0, listing, pc, filename, content, new_filename, outcome, run>>

\* ------------------------------------------------------------------ bounds
MaxLines == 2
MaxFiles == 2

\* ------------------------------------------------------------ text helpers
Range(s) == {s[i] : i \in 1..Len(s)}

Last(s) == s[Len(s)]

RECURSIVE Concat(_)
Concat(ss) == IF ss = <<>> THEN <<>> ELSE Head(ss) \o Concat(Tail(ss))

\* All sequences over S of length n.
RECURSIVE SeqsOfLen(_, _)
SeqsOfLen(S, n) ==
    IF n = 0 THEN {<<>>} ELSE {Append(s, x) : s \in SeqsOfLen(S, n - 1), x \in S}

\* All sequences over S of length 0..n.
SeqsUpTo(S, n) == UNION {SeqsOfLen(S, m) : m \in 0..n}

\* All orders in which the elements of S can be enumerated.
RECURSIVE Orders(_)
Orders(S) ==
    IF S = {} THEN {<<>>}
    ELSE UNION {{<<x>> \o o : o \in Orders(S \ {x})} : x \in S}

\* ================================================================ renamer
Dates == {"2024-01-05", "2023-12-31"}
Times == {"10:00"}
NL == "\n"
Spaces == {" ", NL}
AUTHOR_LINE == <<"author:", " ", "Predrag Tasevski">>

\* str.splitlines(): the lines without their terminators; a final
\* terminator opens no further line.
RECURSIVE SplitFrom(_, _, _)
SplitFrom(s, i, acc) ==
    IF i > Len(s) THEN (IF acc = <<>> THEN <<>> ELSE <<acc>>)
    ELSE IF s[i] = NL THEN <<acc>> \o SplitFrom(s, i + 1, <<>>)
    ELSE SplitFrom(s, i + 1, Append(acc, s[i]))

SplitLines(s) == SplitFrom(s, 1, <<>>)

\* "\n".join(lines)
RECURSIVE JoinLines(_)
JoinLines(lines) ==
    IF lines = <<>> THEN <<>>
    ELSE IF Len(lines) = 1 THEN lines[1]
    ELSE lines[1] \o <<NL>> \o JoinLines(Tail(lines))

\* \s* : the position after the whitespace run that starts at i.
RECURSIVE SkipSpaces(_, _)
SkipSpaces(s, i) ==
    IF i <= Len(s) /\ s[i] \in Spaces THEN SkipSpaces(s, i + 1) ELSE i

\* date_regex anchored at position i:
\*   ^date:\s*(\d{4}-\d{2}-\d{2})(?:\s+\d{2}:\d{2})?   with re.MULTILINE.
\* The result is the match [start, stop (exclusive), date], or <<>>.
MatchAt(s, i) ==
    IF ~((i = 1 \/ s[i - 1] = NL) /\ s[i] = "date:") THEN <<>>
    ELSE LET d == SkipSpaces(s, i + 1)
         IN  IF ~(d <= Len(s) /\ s[d] \in Dates) THEN <<>>
             ELSE LET t == SkipSpaces(s, d + 1)
                  IN  IF t > d + 1 /\ t <= Len(s) /\ s[t] \in Times
                      THEN <<[start |-> i, stop |-> t + 1, date |-> s[d]]>>
                      ELSE <<[start |-> i, stop |-> d + 1, date |-> s[d]]>>

\* date_regex.search(content): the leftmost match.
RECURSIVE SearchFrom(_, _)
SearchFrom(s, i) ==
    IF i > Len(s) THEN <<>>
    ELSE IF MatchAt(s, i) # <<>> THEN MatchAt(s, i)
    ELSE SearchFrom(s, i + 1)

date_regex_search(s) == SearchFrom(s, 1)

\* date_regex.sub(f"date: {date_only}", content, count=1)
date_regex_sub(s, date_only) ==
    LET m == date_regex_search(s)
    IN  IF m = <<>> THEN s
        ELSE SubSeq(s, 1, m[1].start - 1) \o <<"date:", " ", date_only>>
             \o SubSeq(s, m[1].stop, Len(s))

\* "author:" not in content
HasAuthor(s) == "author:" \in Range(s)

\* The index of the first line that starts with "date:", 0 when there is none.
RECURSIVE FirstDateLineFrom(_, _)
FirstDateLineFrom(lines, i) ==
    IF i > Len(lines) THEN 0
    ELSE IF lines[i] # <<>> /\ lines[i][1] = "date:" THEN i
    ELSE FirstDateLineFrom(lines, i + 1)

FirstDateLine(lines) == FirstDateLineFrom(lines, 1)

\* lines.insert(i + 1, AUTHOR_LINE) after the first line starting with "date:"
InsertAuthor(lines) ==
    LET i == FirstDateLine(lines)
    IN  IF i = 0 THEN lines
        ELSE SubSeq(lines, 1, i) \o <<AUTHOR_LINE>> \o SubSeq(lines, i + 1, Len(lines))

\* "Add author if missing"
AddAuthor(s) ==
    IF ~HasAuthor(s) THEN JoinLines(InsertAuthor(SplitLines(s))) ELSE s

\* The content the loop body writes for a document with a date match.
Transform(s) ==
    AddAuthor(date_regex_sub(s, date_regex_search(s)[1].date))

\* filename.endswith(".mdx")
EndsWithMdx(name) == name # <<>> /\ Last(name) = ".mdx"

\* filename.replace(".mdx", ""): every occurrence is removed.
RECURSIVE RemoveMdx(_)
RemoveMdx(name) ==
    IF name = <<>> THEN <<>>
    ELSE IF Head(name) = ".mdx" THEN RemoveMdx(Tail(name))
    ELSE <<Head(name)>> \o RemoveMdx(Tail(name))

base_name(name) == RemoveMdx(name)

\* the new filename without the date prefix
NewFilename_NoDate(name, date_only) == base_name(name) \o <<".md">>

\* f"{date_only}-{base_name}.md"
NewFilename(name, date_only) == <<date_only, "-">> \o base_name(name) \o <<".md">>

\* open(path, "w").write(text): the file is created or overwritten.
WriteFile(files, name, text) ==
    [n \in DOMAIN files \cup {name} |-> IF n = name THEN text ELSE files[n]]

\* os.remove(path)
RemoveFile(files, name) == [n \in DOMAIN files \ {name} |-> files[n]]

\* ------------------------------------------------- the renamer's inputs
RLineSet ==
    { <<"date:", " ", "2024-01-05", " ", "10:00">>,
      <<"date:", " ", "2023-12-31">>,
      <<"date:", " ", "TBD">>,
      <<"date:">>,
      <<"2024-01-05">>,
      <<"author:", " ", "x">>,
      <<"title">> }

\* Documents of up to MaxLines lines, each line newline-terminated.
RContents == {Concat([i \in 1..Len(ls) |-> ls[i] \o <<NL>>]) : ls \in SeqsUpTo(RLineSet, MaxLines)}

ROtherContents ==
    { <<"date:", " ", "2024-01-05", NL>>,
      <<"title", NL>> }

ExampleName == <<"2024-01-05", "-", "post", ".mdx">>

RNames ==
    { <<"a", ".mdx">>,
      <<"a", ".mdx", ".mdx">>,
      ExampleName,
      <<"2024-01-05", "-", "a", ".md">> }

\* A directory: up to MaxFiles files, one of them with any document.
RIsDirectory(files) ==
    \E S \in {T \in SUBSET RNames : T # {} /\ Cardinality(T) <= MaxFiles} :
        \E focus \in S :
            \E c \in RContents \cup ROtherContents, o \in [S \ {focus} -> ROtherContents] :
                files = [n \in S |-> IF n = focus THEN c ELSE o[n]]

RInit ==
    /\ RIsDirectory(fs)
    /\ fs0 = fs
    /\ listing = <<>>
    /\ pc = "start"
    /\ filename = <<>>
    /\ content = <<>>
    /\ new_filename = <<>>
    /\ outcome = [n \in DOMAIN fs |-> "unprocessed"]
    /\ run = 1

\* os.listdir(DIRECTORY): the entries, in arbitrary order.
RListDir ==
    /\ pc = "start"
    /\ listing' \in Orders(DOMAIN fs)
    /\ pc' = "loop"
    /\ UNCHANGED <<fs, fs0, filename, content, new_filename, outcome, run>>

\* if not filename.endswith(".mdx"): continue
RSkipExtension ==
    /\ pc = "loop" /\ listing # <<>>
    /\ ~EndsWithMdx(Head(listing))
    /\ listing' = Tail(listing)
    /\ outcome' = [outcome EXCEPT ![Head(listing)] = "ignored"]
    /\ UNCHANGED <<fs, fs0, pc, filename, content, new_filename, run>>

\* read; if not match: print("Skipping ...: no date found"); continue
RSkipNoDate ==
    /\ pc = "loop" /\ listing # <<>>
    /\ EndsWithMdx(Head(listing))
    /\ date_regex_search(fs[Head(listing)]) = <<>>
    /\ listing' = Tail(listing)
    /\ outcome' = [outcome EXCEPT ![Head(listing)] = "skipped-no-date"]
    /\ UNCHANGED <<fs, fs0, pc, filename, content, new_filename, run>>

\* read; rewrite the date; add the author; build the new filename
RTransform ==
    /\ pc = "loop" /\ listing # <<>>
    /\ EndsWithMdx(Head(listing))
    /\ date_regex_search(fs[Head(listing)]) # <<>>
    /\ filename' = Head(listing)
    /\ content' = Transform(fs[Head(listing)])
    /\ new_filename' = NewFilename(Head(listing), date_regex_search(fs[Head(listing)])[1].date)
    /\ pc' = "write"
    /\ UNCHANGED <<fs, fs0, listing, outcome, run>>

\* with open(new_path, "w") as f: f.write(content)
RWrite ==
    /\ pc = "write"
    /\ fs' = WriteFile(fs, new_filename, content)
    /\ pc' = "remove"
    /\ UNCHANGED <<fs0, listing, filename, content, new_filename, outcome, run>>

\* os.remove(old_path)
RRemove ==
    /\ pc = "remove"
    /\ fs' = RemoveFile(fs, filename)
    /\ pc' = "report"
    /\ UNCHANGED <<fs0, listing, filename, content, new_filename, outcome, run>>

\* print(f"Converted: {filename} -> {new_filename}"); next entry
RReport ==
    /\ pc = "report"
    /\ outcome' = [outcome EXCEPT ![filename] = "converted"]
    /\ listing' = Tail(listing)
    /\ pc' = "loop"
    /\ UNCHANGED <<fs, fs0, filename, content, new_filename, run>>

\* the for loop is exhausted
RDone ==
    /\ pc = "loop" /\ listing = <<>>
    /\ pc' = "done"
    /\ UNCHANGED <<fs, fs0, listing, filename, content, new_filename, outcome, run>>

RNext ==
    \/ RListDir
    \/ RSkipExtension
    \/ RSkipNoDate
    \/ RTransform
    \/ RWrite
    \/ RRemove
    \/ RReport
    \/ RDone

Spec == RInit /\ [][RNext]_vars

\* ========================================================= tag normalizer
\* Python values as yaml.safe_load returns them; a string is a sequence of
\* characters (or words), a mapping a sequence of <<key, value>> in
\* insertion order.
None == [t |-> "none"]
Str(s) == [t |-> "str", s |-> s]
List(v) == [t |-> "list", v |-> v]
Dict(items) == [t |-> "dict", v |-> items]
YAMLError == [t |-> "error"]

\* The lines of a document; every line is newline-terminated.
\*   Marker            ---
\*   Blank             an empty line
\*   Text(w)           a line of plain text
\*   Bad               a line no YAML document may hold (an unclosed "[")
\*   KV(key, q, s)     key: s      (q: the scalar is quoted; s may be empty)
\*   Item(ind, q, s)   - s         (indented by ind columns)
Marker == [k |-> "marker"]
Blank == [k |-> "blank"]
Text(w) == [k |-> "text", s |-> w]
Bad == [k |-> "bad"]
KV(key, q, s) == [k |-> "kv", key |-> key, q |-> q, s |-> s]
Item(ind, q, s) == [k |-> "item", ind |-> ind, q |-> q, s |-> s]

\* str.strip()
RECURSIVE StripLeft(_)
StripLeft(s) == IF s # <<>> /\ Head(s) = " " THEN StripLeft(Tail(s)) ELSE s

RECURSIVE StripRight(_)
StripRight(s) ==
    IF s # <<>> /\ Last(s) = " " THEN StripRight(SubSeq(s, 1, Len(s) - 1)) ELSE s

Strip(s) == StripRight(StripLeft(s))

\* str.lower()
Lower(s) == [i \in 1..Len(s) |-> IF s[i] = "A" THEN "a" ELSE s[i]]

\* str.split(): the maximal runs of non-whitespace
RECURSIVE SplitWords(_, _)
SplitWords(s, acc) ==
    IF s = <<>> THEN (IF acc = <<>> THEN <<>> ELSE <<acc>>)
    ELSE IF Head(s) = " "
         THEN (IF acc = <<>> THEN <<>> ELSE <<acc>>) \o SplitWords(Tail(s), <<>>)
         ELSE SplitWords(Tail(s), Append(acc, Head(s)))

\* " ".join(words)
RECURSIVE JoinWords(_)
JoinWords(words) ==
    IF words = <<>> THEN <<>>
    ELSE IF Len(words) = 1 THEN words[1]
    ELSE words[1] \o <<" ">> \o JoinWords(Tail(words))

\* " ".join(tag.strip().lower().split())
normalize_tag(tag) == JoinWords(SplitWords(Lower(Strip(tag)), <<>>))

\* FRONT_MATTER_RE.match(content), ^---\n(.*?)\n---\n with re.DOTALL: the
\* index of the closing marker line, 0 when there is no match.  The first
\* line is the marker and the closing marker is the first marker line from
\* line 3 on (the group is lazy and needs its own line end).
RECURSIVE ClosingFrom(_, _)
ClosingFrom(text, j) ==
    IF j > Len(text) THEN 0
    ELSE IF text[j] = Marker THEN j
    ELSE ClosingFrom(text, j + 1)

FrontMatterMatch(text) ==
    IF Len(text) >= 3 /\ text[1] = Marker THEN ClosingFrom(text, 3) ELSE 0

\* match.group(1)
FrontMatterStr(text) == SubSeq(text, 2, FrontMatterMatch(text) - 1)

\* content[match.end():]
Body(text) == SubSeq(text, FrontMatterMatch(text) + 1, Len(text))

\* A YAML scalar: quoted text is a string as written; plain text is trimmed
\* and resolved (empty and null are None, [] is the empty list).
ScalarValue(q, s) ==
    IF q THEN Str(s)
    ELSE IF Strip(s) = <<>> \/ Strip(s) = <<"null">> THEN None
    ELSE IF Strip(s) = <<"[]">> THEN List(<<>>)
    ELSE Str(Strip(s))

\* dict[key] = value: a repeated key keeps its place and takes the new value
DictSet(items, key, value) ==
    IF \E n \in 1..Len(items) : items[n][1] = key
    THEN [n \in 1..Len(items) |-> IF items[n][1] = key THEN <<key, value>> ELSE items[n]]
    ELSE Append(items, <<key, value>>)

\* The first index from i on whose line is no list item.
RECURSIVE EndOfItems(_, _)
EndOfItems(lines, i) ==
    IF i <= Len(lines) /\ lines[i].k = "item" THEN EndOfItems(lines, i + 1) ELSE i

\* The value of "key: s" followed by the item lines `items`.
EntryValue(kv, items) ==
    IF items = <<>> THEN ScalarValue(kv.q, kv.s)
    ELSE IF ~kv.q /\ Strip(kv.s) = <<>>
         THEN IF \A n \in 1..Len(items) : items[n].ind = items[1].ind
              THEN List([n \in 1..Len(items) |-> ScalarValue(items[n].q, items[n].s)])
              ELSE YAMLError
    ELSE IF kv.q \/ \E n \in 1..Len(items) : items[n].ind = 0 \/ items[n].q
         THEN YAMLError
    ELSE Str(Strip(kv.s) \o Concat([n \in 1..Len(items) |-> <<" ", "-", " ">> \o Strip(items[n].s)]))

\* A block mapping: key lines, each followed by the items of its list.
RECURSIVE ParseMapping(_, _, _)
ParseMapping(lines, i, acc) ==
    IF i > Len(lines) THEN Dict(acc)
    ELSE IF lines[i].k # "kv" THEN YAMLError
    ELSE LET j   == EndOfItems(lines, i + 1)
             val == EntryValue(lines[i], SubSeq(lines, i + 1, j - 1))
         IN  IF val.t = "error" THEN YAMLError
             ELSE ParseMapping(lines, j, DictSet(acc, lines[i].key, val))

\* yaml.safe_load(front_matter_str)
safe_load(fm) ==
    LET doc   == IF fm # <<>> /\ fm[1] = Marker THEN Tail(fm) ELSE fm
        lines == SelectSeq(doc, LAMBDA l : l.k # "blank")
    IN  IF \E n \in 1..Len(lines) : lines[n].k \in {"bad", "marker"} THEN YAMLError
        ELSE IF lines = <<>> THEN None
        ELSE IF \A n \in 1..Len(lines) : lines[n].k = "text"
             THEN Str([n \in 1..Len(lines) |-> lines[n].s])
        ELSE IF \A n \in 1..Len(lines) : lines[n].k = "item"
             THEN IF \A n \in 1..Len(lines) : lines[n].ind = lines[1].ind
                  THEN List([n \in 1..Len(lines) |-> ScalarValue(lines[n].q, lines[n].s)])
                  ELSE YAMLError
        ELSE ParseMapping(lines, 1, <<>>)

\* Whether the emitter must quote the string to read it back as written.
NeedsQuote(s) ==
    s = <<>> \/ Head(s) = " " \/ Last(s) = " " \/ s = <<"null">> \/ s = <<"[]">>

\* The emitted scalar of a list element.
DumpItem(v) ==
    IF v.t = "str" THEN Item(0, NeedsQuote(v.s), v.s)
    ELSE IF v.t = "list" THEN Item(0, FALSE, <<"[]">>)
    ELSE Item(0, FALSE, <<"null">>)

\* The emitted lines of one key and its value.
DumpEntry(key, v) ==
    IF v.t = "str" THEN <<KV(key, NeedsQuote(v.s), v.s)>>
    ELSE IF v.t = "none" THEN <<KV(key, FALSE, <<"null">>)>>
    ELSE IF v.v = <<>> THEN <<KV(key, FALSE, <<"[]">>)>>
    ELSE <<KV(key, FALSE, <<>>)>> \o [n \in 1..Len(v.v) |-> DumpItem(v.v[n])]

\* safe_dump as it is without sort_keys=False: the keys in sorted order
safe_dump_sorted(d) ==
    LET order == <<"date", "tags", "title">>
    IN  Concat([m \in 1..Len(order) |->
            Concat([n \in 1..Len(d.v) |->
                IF d.v[n][1] = order[m] THEN DumpEntry(d.v[n][1], d.v[n][2]) ELSE <<>>])])

\* yaml.safe_dump(front_matter, sort_keys=False).strip() of a mapping
safe_dump(d) == Concat([n \in 1..Len(d.v) |-> DumpEntry(d.v[n][1], d.v[n][2])])

\* "tags" in front_matter
HasTagsKey(d) == \E n \in 1..Len(d.v) : d.v[n][1] = "tags"

TagsIndex(d) == CHOOSE n \in 1..Len(d.v) : d.v[n][1] = "tags"

\* front_matter["tags"]
TagsOf(d) == d.v[TagsIndex(d)][2]

\* Line 36 raises TypeError: `in` on None, or indexing a string or a list
\* with "tags" once `in` has found it there.
RaisesTypeError(v) ==
    \/ v.t = "none"
    \/ v.t = "str" /\ "tags" \in Range(v.s)
    \/ v.t = "list" /\ \E n \in 1..Len(v.v) : v.v[n].t = "str" /\ v.v[n].s = <<"tags">>

\* "tags" in front_matter and isinstance(front_matter["tags"], list)
HasTagsList(v) == v.t = "dict" /\ HasTagsKey(v) /\ TagsOf(v).t = "list"

\* normalize_tag(t) raises AttributeError: an element without .strip()
RaisesAttributeError(v) ==
    HasTagsList(v) /\ \E n \in 1..Len(TagsOf(v).v) : TagsOf(v).v[n].t # "str"

\* [normalize_tag(t) for t in original_tags]
normalized_tags(original_tags) ==
    [n \in 1..Len(original_tags) |-> Str(normalize_tag(original_tags[n].s))]

\* f"---\n{new_front_matter_str}\n---\n" + content[match.end():]
new_content(text) ==
    LET front_matter == safe_load(FrontMatterStr(text))
        updated == Dict(DictSet(front_matter.v, "tags",
                                List(normalized_tags(TagsOf(front_matter).v))))
    IN  <<Marker>> \o safe_dump(updated) \o <<Marker>> \o Body(text)

\* What one iteration of the loop does with a document.
Process(text) ==
    IF FrontMatterMatch(text) = 0 THEN "skipped-no-marker"
    ELSE LET front_matter == safe_load(FrontMatterStr(text))
         IN  IF front_matter.t = "error" THEN "skipped-parse-error"
             ELSE IF RaisesTypeError(front_matter) THEN "crash"
             ELSE IF ~HasTagsList(front_matter) THEN "skipped-no-change"
             ELSE IF RaisesAttributeError(front_matter) THEN "crash"
             ELSE IF List(normalized_tags(TagsOf(front_matter).v)) # TagsOf(front_matter)
                  THEN "rewritten"
             ELSE "skipped-no-change"

\* filename.endswith(".md") or filename.endswith(".mdx")
IsMarkdown(name) == name # <<>> /\ Last(name) \in {".md", ".mdx"}

\* ------------------------------------------- the tag normalizer's inputs
MaxTagLen == 4
MaxTags == 2
MaxListChars == 4
MaxRuns == 2

TagChars == {"A", "a", " "}

\* The item lines whose text has l characters: quoted where the text needs
\* it, plain otherwise; the empty plain item is null.
TItems(l) ==
    {Item(2, NeedsQuote(s), s) : s \in SeqsOfLen(TagChars, l)}
        \cup (IF l = 0 THEN {Item(2, FALSE, <<>>)} ELSE {})

\* The lists of up to n items of at most MaxTagLen characters each and at
\* most b characters in all; TItemListsFrom: those whose first item has l
\* characters or more.
RECURSIVE TItemLists(_, _), TItemListsFrom(_, _, _)
TItemLists(n, b) == IF n = 0 THEN {<<>>} ELSE {<<>>} \cup TItemListsFrom(n, b, 0)

TItemListsFrom(n, b, l) ==
    IF l > b \/ l > MaxTagLen THEN {}
    ELSE {<<x>> \o r : x \in TItems(l), r \in TItemLists(n - 1, b - l)}
             \cup TItemListsFrom(n, b, l + 1)

\* A document whose front matter is the tags list alone, or the tags list
\* between two other keys with a body after the closing marker.
TagDoc(layout, items) ==
    IF layout = 0
    THEN <<Marker, KV("tags", FALSE, <<>>)>> \o items \o <<Marker>>
    ELSE <<Marker, KV("title", FALSE, <<"x">>), KV("tags", FALSE, <<>>)>> \o items
             \o <<KV("date", FALSE, <<"d">>), Marker, Text("body")>>

TTagDocs == {TagDoc(layout, items) : layout \in {0, 1}, items \in TItemLists(MaxTags, MaxListChars)}

TSmallDocs ==
    { <<Text("x")>>,
      <<Marker, Blank, Marker, Text("body")>>,
      <<Marker, Bad, Marker>>,
      <<Marker, Text("x"), Marker>>,
      <<Marker, Text("tags"), Marker>>,
      <<Marker, Item(0, FALSE, <<"a">>), Marker>>,
      <<Marker, KV("title", FALSE, <<"x">>), Marker, Text("body")>>,
      <<Marker, KV("tags", FALSE, <<"a">>), KV("title", FALSE, <<"null">>), Marker>>,
      <<Marker, KV("tags", FALSE, <<>>), Item(2, FALSE, <<"A">>), Item(2, FALSE, <<"A", "A", " ">>),
        Marker, Text("body")>>,
      <<Marker, KV("title", TRUE, <<"null">>), KV("tags", FALSE, <<>>), Item(0, TRUE, <<" ", "A">>),
        KV("title", FALSE, <<"y">>), Marker, Marker, Text("body")>>,
      <<Marker, KV("tags", FALSE, <<>>), Item(0, FALSE, <<"a">>), Item(0, FALSE, <<"a">>), Marker>>,
      <<Marker, KV("tags", FALSE, <<>>), Item(2, FALSE, <<"null">>), Marker>> }

TNames == {<<"post", ".md">>, <<"page", ".mdx">>, <<"notes", ".txt">>}

\* A directory: one file with any document, or up to MaxFiles files with
\* documents of the small set.
TIsDirectory(files) ==
    \E S \in {T \in SUBSET TNames : T # {} /\ Cardinality(T) <= MaxFiles} :
        \/ Cardinality(S) = 1 /\ \E d \in TTagDocs \cup TSmallDocs : files = [n \in S |-> d]
        \/ Cardinality(S) > 1 /\ files \in [S -> TSmallDocs]

TInit ==
    /\ TIsDirectory(fs)
    /\ fs0 = fs
    /\ listing = <<>>
    /\ pc = "start"
    /\ filename = <<>>
    /\ content = <<>>
    /\ new_filename = <<>>
    /\ outcome = [n \in DOMAIN fs |-> "unprocessed"]
    /\ run = 1

\* os.listdir(DIRECTORY): the entries, in arbitrary order.
TListDir ==
    /\ pc = "start"
    /\ listing' \in Orders(DOMAIN fs)
    /\ pc' = "loop"
    /\ UNCHANGED <<fs, fs0, filename, content, new_filename, outcome, run>>

\* if not (filename.endswith(".md") or filename.endswith(".mdx")): continue
TSkipExtension ==
    /\ pc = "loop" /\ listing # <<>>
    /\ ~IsMarkdown(Head(listing))
    /\ filename' = Head(listing)
    /\ listing' = Tail(listing)
    /\ outcome' = [outcome EXCEPT ![Head(listing)] = "ignored"]
    /\ UNCHANGED <<fs, fs0, pc, content, new_filename, run>>

\* if not match: print("Skipping ...: no front matter"); continue
TSkipNoMarker ==
    /\ pc = "loop" /\ listing # <<>>
    /\ IsMarkdown(Head(listing))
    /\ Process(fs[Head(listing)]) = "skipped-no-marker"
    /\ filename' = Head(listing)
    /\ content' = fs[Head(listing)]
    /\ listing' = Tail(listing)
    /\ outcome' = [outcome EXCEPT ![Head(listing)] = "skipped-no-marker"]
    /\ UNCHANGED <<fs, fs0, pc, new_filename, run>>

\* except Exception: print("Skipping ...: YAML parse error"); continue
TSkipParseError ==
    /\ pc = "loop" /\ listing # <<>>
    /\ IsMarkdown(Head(listing))
    /\ Process(fs[Head(listing)]) = "skipped-parse-error"
    /\ filename' = Head(listing)
    /\ content' = fs[Head(listing)]
    /\ listing' = Tail(listing)
    /\ outcome' = [outcome EXCEPT ![Head(listing)] = "skipped-parse-error"]
    /\ UNCHANGED <<fs, fs0, pc, new_filename, run>>

\* no tags list, or normalized_tags == original_tags: nothing is written
TNoChange ==
    /\ pc = "loop" /\ listing # <<>>
    /\ IsMarkdown(Head(listing))
    /\ Process(fs[Head(listing)]) = "skipped-no-change"
    /\ filename' = Head(listing)
    /\ content' = fs[Head(listing)]
    /\ listing' = Tail(listing)
    /\ outcome' = [outcome EXCEPT ![Head(listing)] = "skipped-no-change"]
    /\ UNCHANGED <<fs, fs0, pc, new_filename, run>>

\* One iteration that rewrites the file in place.
TRewrite ==
    /\ pc = "loop" /\ listing # <<>>
    /\ IsMarkdown(Head(listing))
    /\ Process(fs[Head(listing)]) = "rewritten"
    /\ filename' = Head(listing)
    /\ content' = fs[Head(listing)]
    /\ fs' = WriteFile(fs, Head(listing), new_content(fs[Head(listing)]))
    /\ listing' = Tail(listing)
    /\ outcome' = [outcome EXCEPT ![Head(listing)] = "rewritten"]
    /\ UNCHANGED <<fs0, pc, new_filename, run>>

\* One iteration that raises: the exception is not caught and ends the run.
TCrash ==
    /\ pc = "loop" /\ listing # <<>>
    /\ IsMarkdown(Head(listing))
    /\ Process(fs[Head(listing)]) = "crash"
    /\ filename' = Head(listing)
    /\ content' = fs[Head(listing)]
    /\ pc' = "crashed"
    /\ UNCHANGED <<fs, fs0, listing, new_filename, outcome, run>>

\* the for loop is exhausted
TDone ==
    /\ pc = "loop" /\ listing = <<>>
    /\ pc' = "done"
    /\ UNCHANGED <<fs, fs0, listing, filename, content, new_filename, outcome, run>>

\* The script is started again on the directory as the last run left it.
TRunAgain ==
    /\ pc \in {"done", "crashed"}
    /\ run < MaxRuns
    /\ run' = run + 1
    /\ fs0' = fs
    /\ listing' = <<>>
    /\ pc' = "start"
    /\ filename' = <<>>
    /\ content' = <<>>
    /\ outcome' = [n \in DOMAIN fs |-> "unprocessed"]
    /\ UNCHANGED <<fs, new_filename>>

TNext ==
    \/ TListDir
    \/ TSkipExtension
    \/ TSkipNoMarker
    \/ TSkipParseError
    \/ TNoChange
    \/ TRewrite
    \/ TCrash
    \/ TDone
    \/ TRunAgain

SpecTags == TInit /\ [][TNext]_vars

\* ------------------------------------------------ renamer: claim formulas
\* The .mdx files of the initial directory that hold a date match.
ToConvert == {f \in DOMAIN fs0 : EndsWithMdx(f) /\ date_regex_search(fs0[f]) # <<>>}

DateOf(f) == date_regex_search(fs0[f])[1].date

\* The file name with only its trailing extension token removed.
Stem(name) == SubSeq(name, 1, Len(name) - 1)

\* The index of the line of s that holds token position p.
LineOfPos(s, p) == 1 + Cardinality({i \in 1..(p - 1) : s[i] = NL})

\* lines with line k removed
DropLine(lines, k) == SubSeq(lines, 1, k - 1) \o SubSeq(lines, k + 1, Len(lines))

\* C1 (as claimed): for every .mdx file that is converted, the original is
\* never gone while its new file does not exist, and when the run completes
\* the original path is gone and the new path holds the transformed content
\* of that original.
C1_WriteBeforeDelete ==
    \A f \in ToConvert :
        /\ (f \notin DOMAIN fs => NewFilename(f, DateOf(f)) \in DOMAIN fs)
        /\ (pc = "done" =>
              /\ f \notin DOMAIN fs
              /\ NewFilename(f, DateOf(f)) \in DOMAIN fs
              /\ fs[NewFilename(f, DateOf(f))] = Transform(fs0[f]))

\* C5 (as claimed): the output filename of a converted file is the extracted
\* date, a hyphen, the original filename with only its trailing .mdx removed,
\* and the extension .md.
C5_OutputFilename ==
    pc \in {"write", "remove", "report"} =>
        new_filename = <<DateOf(filename), "-">> \o Stem(filename) \o <<".md">>

\* C7 (as claimed): a converted document without an author field gets exactly
\* one author line, directly after the line whose date was rewritten; a
\* converted document with an author field gets none and is otherwise only
\* date-rewritten.
C7_AuthorAfterDateLine ==
    pc = "write" =>
        LET orig  == fs0[filename]
            dated == date_regex_sub(orig, DateOf(filename))
            k     == LineOfPos(dated, date_regex_search(orig)[1].start)
            after == SplitLines(content)
        IN  IF HasAuthor(orig)
            THEN content = dated
            ELSE /\ Len(after) = Len(SplitLines(dated)) + 1
                 /\ after[k + 1] = AUTHOR_LINE
                 /\ DropLine(after, k + 1) = SplitLines(dated)

\* C10 (as claimed): two distinct converted files get distinct output names,
\* so after the run as many outputs were created as originals deleted and
\* each output holds the transformed content of its own original.
C10_NoConversionLost ==
    pc = "done" =>
        /\ \A f, g \in ToConvert :
              f # g => NewFilename(f, DateOf(f)) # NewFilename(g, DateOf(g))
        /\ Cardinality({n \in DOMAIN fs : \E f \in ToConvert : n = NewFilename(f, DateOf(f))})
              = Cardinality({f \in ToConvert : f \notin DOMAIN fs})

\* The example document of C6: the file 2024-01-05-post.mdx, whose first line
\* beginning with "date:" is "date: 2024-01-05 10:00", without author field.
ExampleDateLine == <<"date:", " ", "2024-01-05", " ", "10:00">>

IsExample(f) ==
    /\ f = ExampleName
    /\ f \in DOMAIN fs0
    /\ ~HasAuthor(fs0[f])
    /\ LET lines == SplitLines(fs0[f])
       IN  FirstDateLine(lines) # 0 /\ lines[FirstDateLine(lines)] = ExampleDateLine

\* text has the line "date: 2024-01-05" with the author line as the next line
DateThenAuthor(text) ==
    LET lines == SplitLines(text)
    IN  \E i \in 1..(Len(lines) - 1) :
            lines[i] = <<"date:", " ", "2024-01-05">> /\ lines[i + 1] = AUTHOR_LINE

\* C6 (as claimed): the example is converted to 2024-01-05-post.md, holding
\* "date: 2024-01-05" followed by the author line, and the original is gone.
C6_ExampleAsClaimed ==
    (pc = "done" /\ IsExample(ExampleName)) =>
        /\ <<"2024-01-05", "-", "post", ".md">> \in DOMAIN fs
        /\ DateThenAuthor(fs[<<"2024-01-05", "-", "post", ".md">>])
        /\ ExampleName \notin DOMAIN fs

\* C6 (amended): the conversion of the example writes the file
\* 2024-01-05-2024-01-05-post.md (the date is prepended to the whole stem),
\* holding "date: 2024-01-05" followed by the author line, and deletes the
\* original; when the run ends the original is still gone and that output
\* file still exists.
C6_ExampleConverted ==
    IsExample(ExampleName) =>
        LET out == <<"2024-01-05", "-", "2024-01-05", "-", "post", ".md">>
        IN  /\ (pc = "report" /\ filename = ExampleName) =>
                  /\ out \in DOMAIN fs
                  /\ DateThenAuthor(fs[out])
                  /\ ExampleName \notin DOMAIN fs
            /\ pc = "done" => (out \in DOMAIN fs /\ ExampleName \notin DOMAIN fs)

C6_Witness ==
    pc = "report" /\ filename = ExampleName /\ IsExample(ExampleName)

\* ----------------------------------------- tag normalizer: claim formulas
\* The documents of the run's directory that the loop does not ignore.
TFiles == {f \in DOMAIN fs0 : IsMarkdown(f)}

FrontMatterOf(text) == safe_load(FrontMatterStr(text))

\* The document has a front matter whose tags field is a list of strings.
HasStringTags(text) ==
    /\ FrontMatterMatch(text) # 0
    /\ HasTagsList(FrontMatterOf(text))
    /\ \A n \in 1..Len(TagsOf(FrontMatterOf(text)).v) : TagsOf(FrontMatterOf(text)).v[n].t = "str"

\* Every tag of the document equals its normalization.
TagsNormalized(text) ==
    \A n \in 1..Len(TagsOf(FrontMatterOf(text)).v) :
        TagsOf(FrontMatterOf(text)).v[n].s = normalize_tag(TagsOf(FrontMatterOf(text)).v[n].s)

\* The document is one the normalizer is to skip: no front-matter marker,
\* unparseable front matter, no tags key, or tags that is not a list.
SkipCase(text) ==
    \/ FrontMatterMatch(text) = 0
    \/ FrontMatterOf(text).t = "error"
    \/ ~HasTagsList(FrontMatterOf(text))

TerminalOutcomes ==
    {"skipped-no-marker", "skipped-parse-error", "skipped-no-change", "rewritten"}

\* C2 (as claimed): every .md/.mdx file of the listing ends in exactly one
\* of the four terminal outcomes whatever its front matter holds; no file
\* stops the run, which completes.
C2_EveryFileReachesAnOutcome ==
    /\ pc # "crashed"
    /\ pc = "done" => \A f \in TFiles : outcome[f] \in TerminalOutcomes

\* C3, renamer half: an .mdx file without a date match keeps its name and
\* content and gets no new file.
C3_RenamerSkipUntouched ==
    \A f \in DOMAIN fs0 :
        outcome[f] = "skipped-no-date" =>
            /\ f \in DOMAIN fs /\ fs[f] = fs0[f]
            /\ \A d \in Dates : NewFilename(f, d) \in DOMAIN fs => NewFilename(f, d) \in DOMAIN fs0
                                    \/ \E g \in ToConvert : NewFilename(g, DateOf(g)) = NewFilename(f, d)

\* C3, tag normalizer half: a file that is to be skipped has the same
\* content afterwards and does not stop the run.
C3_TagsSkipUntouched ==
    \A f \in TFiles :
        (outcome[f] \in {"unprocessed", "skipped-no-marker", "skipped-parse-error", "skipped-no-change"}
            /\ SkipCase(fs0[f])) =>
                /\ fs[f] = fs0[f]
                /\ ~(pc = "crashed" /\ filename = f)

\* C3 (as claimed): a skipped file is left exactly as it was, in both
\* scripts, and the run continues with the next directory entry.
C3_SkippedLeftUntouched == C3_RenamerSkipUntouched /\ C3_TagsSkipUntouched

\* C4 (as claimed): a second run over the directory writes nothing and
\* reports no rewrite, and every file whose tags list is already normalized
\* ends in skipped-no-change.
C4_SecondRunWritesNothing ==
    run > 1 =>
        /\ fs = fs0
        /\ \A f \in DOMAIN fs0 : outcome[f] # "rewritten"
        /\ pc \in {"done", "crashed"} =>
              \A f \in TFiles :
                  (HasStringTags(fs0[f]) /\ TagsNormalized(fs0[f])) =>
                      outcome[f] = "skipped-no-change"

\* C8 (as claimed): after the run, the tags of every file whose tags field
\* was a list of strings are the normalizations of the original tags, in
\* the original order and number, and the file was written exactly if some
\* tag differed from its normalization.
C8_TagsNormalizedInOrder ==
    pc \in {"done", "crashed"} =>
        \A f \in TFiles :
            HasStringTags(fs0[f]) =>
                LET original == TagsOf(FrontMatterOf(fs0[f])).v
                    after    == TagsOf(FrontMatterOf(fs[f])).v
                IN  /\ Len(after) = Len(original)
                    /\ \A n \in 1..Len(original) : after[n] = Str(normalize_tag(original[n].s))
                    /\ (outcome[f] = "rewritten") <=>
                           (\E n \in 1..Len(original) : original[n].s # normalize_tag(original[n].s))

\* C9: a rewrite changes the tags field only: the rewritten file still has a
\* front matter, a mapping with the same keys in the same order and the
\* same value for every key but tags, followed by the same body; and no
\* run creates or deletes a file.
C9_RewriteChangesTagsOnly ==
    /\ DOMAIN fs = DOMAIN fs0
    /\ \A f \in TFiles :
          outcome[f] = "rewritten" =>
              LET old == FrontMatterOf(fs0[f])
                  new == FrontMatterOf(fs[f])
              IN  /\ FrontMatterMatch(fs[f]) # 0
                  /\ new.t = "dict"
                  /\ Len(new.v) = Len(old.v)
                  /\ \A n \in 1..Len(old.v) :
                        /\ new.v[n][1] = old.v[n][1]
                        /\ old.v[n][1] # "tags" => new.v[n][2] = old.v[n][2]
                  /\ Body(fs[f]) = Body(fs0[f])

C9_Witness ==
    \E f \in TFiles :
        /\ outcome[f] = "rewritten"
        /\ Len(FrontMatterOf(fs0[f]).v) >= 3
        /\ TagsIndex(FrontMatterOf(fs0[f])) = 2
        /\ Body(fs0[f]) # <<>>

====
